---- MODULE Spec2Model ----
(***************************************************************************)
(* A model of redditStreamlit_5.py: the Google-Trends dashboard script.    *)
(* The script is a straight line: check the data folder, load every CSV    *)
(* into one dataframe (load_all_data), read the sidebar widgets, filter,   *)
(* and compute the KPIs.  A dataframe is a sequence of rows (records), a   *)
(* CSV file a sequence of lines, a line a sequence of text cells.          *)
(***************************************************************************)
EXTENDS Integers, Sequences, FiniteSets, TLC

VARIABLES
    pc,                     \* position of the script
    root_exists,            \* os.path.exists(data_root)
    listing,                \* what the two os.listdir loops visit, in order
    pos,                    \* number of listing entries already visited
    all_data,               \* load_all_data: the list of dataframes
    origin,                 \* history: origin[j] = listing index all_data[j] came from
    warnings,               \* listing indices st.warning was called for
    df,                     \* the unified dataset
    message,                \* the st.error / st.warning shown by a halting check
    selected_products, selected_categories, selected_locations, date_range,
    df_filtered,
    growth_df,              \* sequence of [Product, Start, End, Growth] in index order
    top_growing_product, top_declining_product,
    top_location,
    cat_city_pct,           \* sequence of [Location, shares], shares: Category -> ratio
    top3_text,              \* sequence of [Location, entries]
    row,                    \* the row handed to capped_growth
    change                  \* what capped_growth returned for row

vars == <<pc, root_exists, listing, pos, all_data, origin, warnings, df, message,
          selected_products, selected_categories, selected_locations, date_range,
          df_filtered, growth_df, top_growing_product, top_declining_product,
          top_location, cat_city_pct, top3_text, row, change>>

(***************************************************************************)
(* Bounds of the model.                                                    *)
(***************************************************************************)
MaxEntries == 3     \* directory entries visited by one load
MaxRows == 3        \* data rows of a generated CSV file
MaxFiles == 2       \* directory entries of a whole run of the script
MaxRecords == 3     \* rows of a generated unified dataset
MaxGrowthRows == 3  \* rows of a generated filtered view of one city
MaxCityRows == 4    \* rows of a generated filtered view of one date

(***************************************************************************)
(* Generic helpers.                                                        *)
(***************************************************************************)
Range(s) == {s[i] : i \in 1..Len(s)}

RECURSIVE Flatten(_)
Flatten(ss) == IF ss = <<>> THEN <<>> ELSE Head(ss) \o Flatten(Tail(ss))

RECURSIVE SumSeq(_)
SumSeq(s) == IF s = <<>> THEN 0 ELSE Head(s) + SumSeq(Tail(s))

\* sorted(...) of a set of strings is not expressible (TLC has no order on
\* strings); the model fixes the alphabetical order of the names it uses.
Alphabet == <<"Barcelona", "Birmingham", "BlackTuxedo", "CheckSuit", "Coats",
              "CottonPolo", "DenimShirt", "France", "London", "Madrid", "Polos",
              "Shirts", "Suits", "TrenchCoat", "Unknown">>

Rank(name) == CHOOSE i \in 1..Len(Alphabet) : Alphabet[i] = name

RECURSIVE SortedSeq(_)
SortedSeq(S) ==
    IF S = {} THEN <<>>
    ELSE LET m == CHOOSE x \in S : \A y \in S : Rank(x) <= Rank(y)
         IN  <<m>> \o SortedSeq(S \ {m})

(***************************************************************************)
(* Static tables (lines 19-41).                                            *)
(***************************************************************************)
product_to_category ==
    [p \in {"CheckSuit", "BlackTuxedo", "WoolOvercoat", "TrenchCoat", "PufferJacket",
            "LinenBlazer", "VelvetBlazer", "OversizedGraphicTee", "CrewNeckTee",
            "AviatorSunglasses", "WoolScarf", "CrewNeckSweatshirt",
            "OversizedSweatshirt", "Cardigans", "Pullovers", "DenimShirt",
            "CargoJoggers", "Palazzo", "BlackJeans", "FloralMaxiDress", "SatinDress",
            "GymLeggings", "SportsBra", "BabyBodysuit", "WoolSweater", "FuzzySweater",
            "CropTop", "OffShoulderTop", "CottonPolo", "Jumpsuit"} |->
        CASE p \in {"CheckSuit", "BlackTuxedo"} -> "Suits"
          [] p \in {"WoolOvercoat", "TrenchCoat", "PufferJacket"} -> "Coats"
          [] p \in {"LinenBlazer", "VelvetBlazer"} -> "Blazers"
          [] p \in {"OversizedGraphicTee", "CrewNeckTee"} -> "T-shirts"
          [] p \in {"AviatorSunglasses", "WoolScarf"} -> "Accessories"
          [] p \in {"CrewNeckSweatshirt", "OversizedSweatshirt"} -> "Sweatshirts"
          [] p \in {"Cardigans", "Pullovers"} -> "Knitwear"
          [] p = "DenimShirt" -> "Shirts"
          [] p \in {"CargoJoggers", "Palazzo", "BlackJeans"} -> "Pants"
          [] p \in {"FloralMaxiDress", "SatinDress"} -> "Dress"
          [] p \in {"GymLeggings", "SportsBra"} -> "Sportswear"
          [] p = "BabyBodysuit" -> "Kidswear"
          [] p \in {"WoolSweater", "FuzzySweater"} -> "Sweaters"
          [] p \in {"CropTop", "OffShoulderTop"} -> "Tops"
          [] p = "CottonPolo" -> "Polos"
          [] p = "Jumpsuit" -> "Jumpsuits"]

\* product_to_category.get(product, "Unknown")
CategoryOf(product) ==
    IF product \in DOMAIN product_to_category
    THEN product_to_category[product] ELSE "Unknown"

city_aliases ==
    [t \in {"UK", "Spain"} |->
        IF t = "UK" THEN <<"London", "Birmingham">> ELSE <<"Madrid", "Barcelona">>]

(***************************************************************************)
(* CSV text.  pd.to_datetime and read_csv's integer inference are modelled *)
(* by the cells they accept: a date cell parses to its week number, a      *)
(* count cell to its integer value; any other text does not parse.         *)
(***************************************************************************)
DateText == <<"2024-01-07", "2024-01-14", "2024-01-21", "2024-01-28">>

IsDateText(cell) == \E i \in 1..Len(DateText) : DateText[i] = cell

to_datetime(cell) == CHOOSE i \in 1..Len(DateText) : DateText[i] = cell

IntText == [c \in {"0", "5", "20", "300"} |->
               CASE c = "0" -> 0 [] c = "5" -> 5 [] c = "20" -> 20 [] c = "300" -> 300]

IsIntText(cell) == cell \in DOMAIN IntText

(***************************************************************************)
(* A listing entry is one file the two os.listdir loops come to: isdir     *)
(* says whether the top-level entry holding it is a directory (line 49; a  *)
(* top-level entry that is no directory is itself the "file"), parts are   *)
(* the '_'-separated tokens of the name without ".csv", ext its extension, *)
(* lines the file's physical lines.                                        *)
(***************************************************************************)
Preamble == << <<"Category: All categories">>, <<>> >>

HeaderLine == <<"Week", "Interest">>

\* pd.read_csv(file_path, skiprows=2): the first two lines are dropped, the
\* third names the columns, the rest are the data rows.
read_csv_fails(lines) == Len(lines) < 3

read_csv_header(lines) == lines[3]

read_csv_data(lines) == SubSeq(lines, 4, Len(lines))

\* read_csv infers int64 for a column of integer cells and keeps the text
\* (dtype object) otherwise.
MentionsColumn(data) ==
    IF \A i \in 1..Len(data) : IsIntText(data[i][2])
    THEN [i \in 1..Len(data) |-> IntText[data[i][2]]]
    ELSE [i \in 1..Len(data) |-> data[i][2]]

\* What makes the try block of lines 57-76 raise, in the order of the code:
\* read_csv, df.columns = [...], pd.to_datetime, name_parts[1].
LoadRaises(f) ==
    IF read_csv_fails(f.lines) THEN TRUE
    ELSE IF Len(read_csv_header(f.lines)) # 2 THEN TRUE
    ELSE IF \E i \in 1..Len(read_csv_data(f.lines)) :
                ~IsDateText(read_csv_data(f.lines)[i][1]) THEN TRUE
    ELSE Len(f.parts) < 2

\* lines 58-67: the dataframe of one file before Location is set.
NormalizeFile(f) ==
    LET data == read_csv_data(f.lines)
        mentions == MentionsColumn(data)
    IN  [i \in 1..Len(data) |->
            [Date |-> to_datetime(data[i][1]), Mentions |-> mentions[i],
             Product |-> f.parts[1], Category |-> CategoryOf(f.parts[1])]]

WithLocation(rows, loc) ==
    [i \in 1..Len(rows) |->
        [Date |-> rows[i].Date, Mentions |-> rows[i].Mentions,
         Product |-> rows[i].Product, Category |-> rows[i].Category,
         Location |-> loc]]

\* A plausible slip: temp_df = df instead of df.copy(), so that every city's
\* entry is the one dataframe, which ends with the last city's name.
ExpandLocationNoCopy(rows, tag) ==
    IF tag \in DOMAIN city_aliases
    THEN [k \in 1..Len(city_aliases[tag]) |->
             WithLocation(rows, city_aliases[tag][Len(city_aliases[tag])])]
    ELSE <<WithLocation(rows, tag)>>

\* lines 69-76: the dataframes one file appends to all_data.
ExpandLocation(rows, tag) ==
    IF tag \in DOMAIN city_aliases
    THEN [k \in 1..Len(city_aliases[tag]) |-> WithLocation(rows, city_aliases[tag][k])]
    ELSE <<WithLocation(rows, tag)>>

\* line 49: a top-level entry that is no directory is passed over.
SkipNonDirectory ==
    /\ pc = "load"
    /\ pos < Len(listing)
    /\ ~listing[pos + 1].isdir
    /\ pos' = pos + 1
    /\ UNCHANGED <<pc, root_exists, listing, all_data, origin, warnings, df, message,
                   selected_products, selected_categories, selected_locations,
                   date_range, df_filtered, growth_df, top_growing_product,
                   top_declining_product, top_location, cat_city_pct, top3_text,
                   row, change>>

\* line 53: a file not ending in ".csv" is passed over.
SkipNonCsv ==
    /\ pc = "load"
    /\ pos < Len(listing)
    /\ listing[pos + 1].isdir
    /\ listing[pos + 1].ext # "csv"
    /\ pos' = pos + 1
    /\ UNCHANGED <<pc, root_exists, listing, all_data, origin, warnings, df, message,
                   selected_products, selected_categories, selected_locations,
                   date_range, df_filtered, growth_df, top_growing_product,
                   top_declining_product, top_location, cat_city_pct, top3_text,
                   row, change>>

\* lines 56-76, no exception: the file's dataframes are appended.
ReadFile ==
    /\ pc = "load"
    /\ pos < Len(listing)
    /\ listing[pos + 1].isdir
    /\ listing[pos + 1].ext = "csv"
    /\ ~LoadRaises(listing[pos + 1])
    /\ LET f == listing[pos + 1]
           frames == ExpandLocation(NormalizeFile(f), f.parts[2])
       IN  /\ all_data' = all_data \o frames
           /\ origin' = origin \o [k \in 1..Len(frames) |-> pos + 1]
    /\ pos' = pos + 1
    /\ UNCHANGED <<pc, root_exists, listing, warnings, df, message,
                   selected_products, selected_categories, selected_locations,
                   date_range, df_filtered, growth_df, top_growing_product,
                   top_declining_product, top_location, cat_city_pct, top3_text,
                   row, change>>

\* lines 78-79: an exception in the try block: a warning, nothing appended
\* (every statement that can raise comes before the first append).
WarnFile ==
    /\ pc = "load"
    /\ pos < Len(listing)
    /\ listing[pos + 1].isdir
    /\ listing[pos + 1].ext = "csv"
    /\ LoadRaises(listing[pos + 1])
    /\ warnings' = warnings \cup {pos + 1}
    /\ pos' = pos + 1
    /\ UNCHANGED <<pc, root_exists, listing, all_data, origin, df, message,
                   selected_products, selected_categories, selected_locations,
                   date_range, df_filtered, growth_df, top_growing_product,
                   top_declining_product, top_location, cat_city_pct, top3_text,
                   row, change>>

\* line 81 and line 85: pd.concat(all_data, ignore_index=True), or an empty
\* dataframe when nothing was appended.
ConcatAll ==
    /\ pc = "load"
    /\ pos = Len(listing)
    /\ df' = Flatten(all_data)
    /\ pc' = "loaded"
    /\ UNCHANGED <<root_exists, listing, pos, all_data, origin, warnings, message,
                   selected_products, selected_categories, selected_locations,
                   date_range, df_filtered, growth_df, top_growing_product,
                   top_declining_product, top_location, cat_city_pct, top3_text,
                   row, change>>

load_all_data == SkipNonDirectory \/ SkipNonCsv \/ ReadFile \/ WarnFile \/ ConcatAll

(***************************************************************************)
(* The files the loader is exercised on.                                   *)
(***************************************************************************)
CountText == <<"20", "5", "300", "0">>

DataRows(n) == [i \in 1..n |-> <<DateText[i], CountText[i]>>]

CsvFile(parts, data) ==
    [isdir |-> TRUE, parts |-> parts, ext |-> "csv",
     lines |-> Preamble \o <<HeaderLine>> \o data]

GoodFiles ==
    {CsvFile(parts, DataRows(n)) :
        parts \in {<<"CheckSuit", "UK">>, <<"TrenchCoat", "France">>}, n \in 0..MaxRows}

BadDateFile == CsvFile(<<"TrenchCoat", "France">>,
                       <<<<DateText[1], "20">>, <<"Total", "5">>>>)

BadCountFile == CsvFile(<<"TrenchCoat", "France">>,
                        <<<<DateText[1], "20">>, <<DateText[2], "<1">>>>)

WrongColumnsFile ==
    [isdir |-> TRUE, parts |-> <<"CheckSuit", "UK">>, ext |-> "csv",
     lines |-> Preamble \o <<<<"Week", "Interest", "Note">>,
                             <<DateText[1], "20", "x">>>>]

EmptyFile == [isdir |-> TRUE, parts |-> <<"CheckSuit", "UK">>, ext |-> "csv",
              lines |-> Preamble]

NoTagFile == CsvFile(<<"CheckSuit">>, DataRows(1))

NotCsvFile == [isdir |-> TRUE, parts |-> <<"CheckSuit", "UK">>, ext |-> "txt",
               lines |-> Preamble \o <<HeaderLine>> \o DataRows(1)]

TopLevelFile == [isdir |-> FALSE, parts |-> <<"CheckSuit", "UK">>, ext |-> "csv",
                 lines |-> Preamble \o <<HeaderLine>> \o DataRows(1)]

LoadUniverse ==
    GoodFiles \cup {BadDateFile, BadCountFile, WrongColumnsFile, EmptyFile,
                    NoTagFile, NotCsvFile, TopLevelFile}

SeqsUpTo(S, n) == UNION {[1..k -> S] : k \in 0..n}

LoaderUnset ==
    /\ all_data = <<>>
    /\ origin = <<>>
    /\ warnings = {}
    /\ pos = 0

WidgetsUnset ==
    /\ selected_products = {}
    /\ selected_categories = {}
    /\ selected_locations = {}
    /\ date_range = <<0, 0>>
    /\ df_filtered = <<>>

KpiUnset ==
    /\ growth_df = <<>>
    /\ top_growing_product = "None"
    /\ top_declining_product = "None"
    /\ top_location = "None"
    /\ cat_city_pct = <<>>
    /\ top3_text = <<>>

RowUnset ==
    /\ row = [Start |-> 0, End |-> 0]
    /\ change = <<0, 1>>

InitLoad ==
    /\ pc = "load"
    /\ root_exists = TRUE
    /\ listing \in SeqsUpTo(LoadUniverse, MaxEntries)
    /\ LoaderUnset
    /\ df = <<>>
    /\ message = "none"
    /\ WidgetsUnset
    /\ KpiUnset
    /\ RowUnset

NextLoad == load_all_data

SpecLoad == InitLoad /\ [][NextLoad]_vars

(***************************************************************************)
(* Claims about load_all_data (checked under SpecLoad).                    *)
(***************************************************************************)
\* The files the loops hand to the try block.
CsvEntries == {i \in 1..Len(listing) : listing[i].isdir /\ listing[i].ext = "csv"}

\* A well-formed file as the specification describes it: a name of the form
\* <Product>_<LocationTag>, the preamble and the column line, then rows of a
\* date and an integer count.
WellFormedName(f) == Len(f.parts) >= 2

WellFormedContent(f) ==
    /\ Len(f.lines) >= 3
    /\ Len(f.lines[3]) = 2
    /\ \A k \in 4..Len(f.lines) :
           /\ Len(f.lines[k]) = 2
           /\ IsDateText(f.lines[k][1])
           /\ IsIntText(f.lines[k][2])

WellFormed(f) == WellFormedName(f) /\ WellFormedContent(f)

DataRowCount(f) == Len(f.lines) - 3

LocationsOf(tag) ==
    IF tag \in DOMAIN city_aliases THEN city_aliases[tag] ELSE <<tag>>

FramesFrom(i) == {j \in 1..Len(all_data) : origin[j] = i}

RECURSIVE ExpectedRowCount(_)
ExpectedRowCount(i) ==
    IF i = 0 THEN 0
    ELSE ExpectedRowCount(i - 1)
         + (IF i \in CsvEntries /\ WellFormed(listing[i])
            THEN DataRowCount(listing[i]) * Len(LocationsOf(listing[i].parts[2]))
            ELSE 0)

\* C1: when the load has finished, every malformed file (bad date column, bad
\* count column, bad column layout, or a name without a location token) was
\* warned about and contributed no dataframe, and the unified dataset holds
\* exactly the rows of the well-formed files.
C1_FailureIsolation ==
    pc = "loaded" =>
        /\ \A i \in CsvEntries :
               ~WellFormed(listing[i]) => i \in warnings /\ FramesFrom(i) = {}
        /\ \A i \in CsvEntries : WellFormed(listing[i]) => i \notin warnings
        /\ Len(df) = ExpectedRowCount(Len(listing))

FrameIsCopyOf(frame, f, loc) ==
    /\ Len(frame) = DataRowCount(f)
    /\ \A r \in 1..Len(frame) :
           /\ frame[r].Date = to_datetime(f.lines[r + 3][1])
           /\ frame[r].Mentions = IntText[f.lines[r + 3][2]]
           /\ frame[r].Product = f.parts[1]
           /\ frame[r].Category = CategoryOf(f.parts[1])
           /\ frame[r].Location = loc

\* the number of rows of the dataframes appended before the j-th
FrameOffset(j) == SumSeq([k \in 1..(j - 1) |-> Len(all_data[k])])

ExampleListing ==
    <<CsvFile(<<"CheckSuit", "UK">>, DataRows(3)),
      CsvFile(<<"TrenchCoat", "France">>, DataRows(3))>>

Column(frame, name) == [i \in 1..Len(frame) |-> frame[i][name]]

unique(frame, name) == Range(Column(frame, name))

RECURSIVE SeqMin(_)
SeqMin(s) ==
    IF Len(s) = 1 THEN s[1]
    ELSE LET m == SeqMin(Tail(s)) IN IF s[1] <= m THEN s[1] ELSE m

RECURSIVE SeqMax(_)
SeqMax(s) ==
    IF Len(s) = 1 THEN s[1]
    ELSE LET m == SeqMax(Tail(s)) IN IF s[1] >= m THEN s[1] ELSE m

\* Series.isin(values)
isin(col, values) == [i \in 1..Len(col) |-> col[i] \in values]

\* A plausible slip: inclusive="neither".
between_exclusive(col, lo, hi) == [i \in 1..Len(col) |-> lo < col[i] /\ col[i] < hi]

\* Series.between(left, right): inclusive on both sides.
between(col, lo, hi) == [i \in 1..Len(col) |-> lo <= col[i] /\ col[i] <= hi]

\* the & of boolean series
MaskAnd(a, b) == [i \in 1..Len(a) |-> a[i] /\ b[i]]

\* frame[mask]: the rows whose mask entry is true, in their order
RECURSIVE BoolIndex(_, _)
BoolIndex(frame, mask) ==
    IF frame = <<>> THEN <<>>
    ELSE (IF Head(mask) THEN <<Head(frame)>> ELSE <<>>)
         \o BoolIndex(Tail(frame), Tail(mask))

\* lines 109-114
FilterFrame(frame, products, categories, locations, range) ==
    BoolIndex(frame,
        MaskAnd(MaskAnd(MaskAnd(isin(Column(frame, "Product"), products),
                                isin(Column(frame, "Category"), categories)),
                        isin(Column(frame, "Location"), locations)),
                between(Column(frame, "Date"), range[1], range[2])))

\* lines 93-106: the user picks any subset of each multiselect's options and
\* any interval of the slider, whose ends are the dataset's first and last date.
SelectFilters ==
    /\ pc = "widgets"
    /\ selected_products' \in SUBSET unique(df, "Product")
    /\ selected_categories' \in SUBSET unique(df, "Category")
    /\ selected_locations' \in SUBSET unique(df, "Location")
    /\ \E lo \in SeqMin(Column(df, "Date"))..SeqMax(Column(df, "Date")) :
           \E hi \in lo..SeqMax(Column(df, "Date")) :
               date_range' = <<lo, hi>>
    /\ pc' = "filter"
    /\ UNCHANGED <<root_exists, listing, pos, all_data, origin, warnings, df, message,
                   df_filtered, growth_df, top_growing_product,
                   top_declining_product, top_location, cat_city_pct, top3_text,
                   row, change>>

\* A plausible slip: the empty check of lines 116-118 left out.
ApplyFilterNoHalt ==
    /\ pc = "filter"
    /\ df_filtered' = FilterFrame(df, selected_products, selected_categories,
                                  selected_locations, date_range)
    /\ pc' = "kpi"
    /\ UNCHANGED <<root_exists, listing, pos, all_data, origin, warnings, df, message,
                   selected_products, selected_categories, selected_locations,
                   date_range, growth_df, top_growing_product,
                   top_declining_product, top_location, cat_city_pct, top3_text,
                   row, change>>

\* lines 109-118: filter, and halt with a warning on an empty result.
ApplyFilter ==
    /\ pc = "filter"
    /\ df_filtered' = FilterFrame(df, selected_products, selected_categories,
                                  selected_locations, date_range)
    /\ IF df_filtered' = <<>>
       THEN pc' = "stopped" /\ message' = "No data matches the selected filters."
       ELSE pc' = "kpi" /\ message' = message
    /\ UNCHANGED <<root_exists, listing, pos, all_data, origin, warnings, df,
                   selected_products, selected_categories, selected_locations,
                   date_range, growth_df, top_growing_product,
                   top_declining_product, top_location, cat_city_pct, top3_text,
                   row, change>>

\* The unified datasets the filter is exercised on: rows of two products of
\* different categories, a plain location and an alias city, two dates.
FilterRows ==
    {[Date |-> d, Mentions |-> 5, Product |-> p, Category |-> CategoryOf(p),
      Location |-> l] :
        d \in {1, 2}, p \in {"CheckSuit", "TrenchCoat"}, l \in {"London", "France"}}

InitFilter ==
    /\ pc = "widgets"
    /\ root_exists = TRUE
    /\ listing = <<>>
    /\ LoaderUnset
    /\ df \in SeqsUpTo(FilterRows, MaxRecords) \ {<<>>}
    /\ message = "none"
    /\ WidgetsUnset
    /\ KpiUnset
    /\ RowUnset

NextFilter == SelectFilters \/ ApplyFilter

SpecFilter == InitFilter /\ [][NextFilter]_vars

(***************************************************************************)
(* Claims about the filter (checked under SpecFilter).                     *)
(***************************************************************************)
Satisfies(r, products, categories, locations, lo, hi) ==
    /\ r.Product \in products
    /\ r.Category \in categories
    /\ r.Location \in locations
    /\ lo <= r.Date
    /\ r.Date <= hi

Matching == {i \in 1..Len(df) :
                Satisfies(df[i], selected_products, selected_categories,
                          selected_locations, date_range[1], date_range[2])}

\* the k-th smallest index of a set of indices
Kth(S, k) == CHOOSE i \in S : Cardinality({j \in S : j < i}) = k - 1

Filtered == pc \in {"kpi", "stopped"}

\* C2: after the filter ran, the Filtered View is exactly the rows of the
\* unified dataset that satisfy all four constraints (membership in the three
\* selected sets, lo <= Date <= hi), in their original order; and no smaller
\* product, category or location set and no narrower date interval returns more
\* rows.
C2_FilterExact ==
    Filtered =>
        /\ Len(df_filtered) = Cardinality(Matching)
        /\ \A k \in 1..Len(df_filtered) : df_filtered[k] = df[Kth(Matching, k)]
        /\ \A ps \in SUBSET selected_products :
               Len(FilterFrame(df, ps, selected_categories, selected_locations,
                               date_range)) <= Len(df_filtered)
        /\ \A cs \in SUBSET selected_categories :
               Len(FilterFrame(df, selected_products, cs, selected_locations,
                               date_range)) <= Len(df_filtered)
        /\ \A ls \in SUBSET selected_locations :
               Len(FilterFrame(df, selected_products, selected_categories, ls,
                               date_range)) <= Len(df_filtered)
        /\ \A lo \in date_range[1]..date_range[2] : \A hi \in lo..date_range[2] :
               Len(FilterFrame(df, selected_products, selected_categories,
                               selected_locations, <<lo, hi>>)) <= Len(df_filtered)

\* a view that drops a row between two rows it keeps, with rows on both ends of
\* the date interval
C2_Witness ==
    /\ pc = "kpi"
    /\ Len(df) = 3
    /\ Matching = {1, 3}
    /\ df_filtered = <<df[1], df[3]>>
    /\ df[1].Date = date_range[1]
    /\ df[3].Date = date_range[2]
    /\ date_range[1] < date_range[2]

(***************************************************************************)
(* capped_growth (lines 132-145).  Python computes the percentage in       *)
(* floating point; the model keeps it exact, as a ratio <<n, d>> with      *)
(* d > 0 (n / d).  <<0, 0>> stands for the NaN of a 0 / 0 division.        *)
(***************************************************************************)
Ratio(n) == <<n, 1>>

NaN == <<0, 0>>

IsNaN(a) == a[2] = 0

RatEq(a, b) == ~IsNaN(a) /\ ~IsNaN(b) /\ a[1] * b[2] = b[1] * a[2]

RatLess(a, b) == ~IsNaN(a) /\ ~IsNaN(b) /\ a[1] * b[2] < b[1] * a[2]

RatAdd(a, b) == IF IsNaN(a) \/ IsNaN(b) THEN NaN
                ELSE <<a[1] * b[2] + b[1] * a[2], a[2] * b[2]>>

RECURSIVE GCD(_, _)
GCD(a, b) == IF b = 0 THEN a ELSE GCD(b, a % b)

Abs(n) == IF n < 0 THEN 0 - n ELSE n

\* n / d in lowest terms (d > 0): the value is unchanged
Quotient(n, d) == LET g == GCD(Abs(n), d) IN <<n \div g, d \div g>>

\* A plausible slip: the upper cap forgotten.
capped_growth_uncapped(r) ==
    IF r.Start < 20 THEN Ratio(0)
    ELSE IF r.Start = 0 THEN (IF r.End > 0 THEN Ratio(100) ELSE Ratio(0))
    ELSE Quotient((r.End - r.Start) * 100, r.Start)

capped_growth(r) ==
    IF r.Start < 20 THEN Ratio(0)
    ELSE IF r.Start = 0 THEN (IF r.End > 0 THEN Ratio(100) ELSE Ratio(0))
    ELSE LET computed == Quotient((r.End - r.Start) * 100, r.Start)
         IN  IF RatLess(Ratio(1000), computed) THEN Ratio(1000)
             ELSE IF RatLess(computed, Ratio(-1000)) THEN Ratio(-1000)
             ELSE computed

\* line 147: growth_df.apply(capped_growth, axis=1), one row
ApplyCappedGrowth ==
    /\ pc = "capped_growth"
    /\ change' = capped_growth(row)
    /\ pc' = "returned"
    /\ UNCHANGED <<root_exists, listing, pos, all_data, origin, warnings, df, message,
                   selected_products, selected_categories, selected_locations,
                   date_range, df_filtered, growth_df, top_growing_product,
                   top_declining_product, top_location, cat_city_pct, top3_text,
                   row>>

\* Start and End are sums of non-negative counts.
GrowthInputs == {0, 5, 10, 19, 20, 21, 50, 100, 1000, 10000, 20000}

InitGrowth ==
    /\ pc = "capped_growth"
    /\ root_exists = TRUE
    /\ listing = <<>>
    /\ LoaderUnset
    /\ df = <<>>
    /\ message = "none"
    /\ WidgetsUnset
    /\ KpiUnset
    /\ row \in [Start : GrowthInputs, End : GrowthInputs]
    /\ change = Ratio(0)

NextGrowth == ApplyCappedGrowth

SpecGrowth == InitGrowth /\ [][NextGrowth]_vars

(***************************************************************************)
(* Claims about capped_growth (checked under SpecGrowth).                  *)
(***************************************************************************)
\* C3: capped_growth returns 100 for Start = 0 and End > 0, and 0 for
\* Start = 0 and End = 0.
C3_ZeroBase ==
    (pc = "returned" /\ row.Start = 0) =>
        IF row.End > 0 THEN RatEq(change, Ratio(100)) ELSE RatEq(change, Ratio(0))

\* C4: capped_growth returns 0 when Start < 20, and otherwise
\* (End - Start) / Start * 100 clamped to [-1000, 1000]: Start=10, End=1000
\* gives 0, Start=10000, End=0 gives -100, Start=100, End=20000 gives 1000, and
\* the result is never outside [-1000, 1000].
C4_GrowthPolicy ==
    pc = "returned" =>
        /\ row.Start < 20 => RatEq(change, Ratio(0))
        /\ row.Start >= 20 =>
               LET exact == (row.End - row.Start) * 100
               IN  /\ exact > 1000 * row.Start => RatEq(change, Ratio(1000))
                   /\ exact < (-1000) * row.Start => RatEq(change, Ratio(-1000))
                   /\ (exact <= 1000 * row.Start /\ exact >= (-1000) * row.Start) =>
                          change[1] * row.Start = exact * change[2]
        /\ row = [Start |-> 10, End |-> 1000] => RatEq(change, Ratio(0))
        /\ row = [Start |-> 10000, End |-> 0] => RatEq(change, Ratio(-100))
        /\ row = [Start |-> 100, End |-> 20000] => RatEq(change, Ratio(1000))
        /\ ~RatLess(Ratio(1000), change)
        /\ ~RatLess(change, Ratio(-1000))
        /\ ~IsNaN(change)

C4_Witness ==
    /\ pc = "returned"
    /\ row = [Start |-> 100, End |-> 20000]
    /\ change = Ratio(1000)

(***************************************************************************)
(* The KPI stage (lines 120-249).  groupby(...).sum() gives one entry per  *)
(* key present, in sorted key order.                                       *)
(***************************************************************************)
RowsWhere(frame, name, value) ==
    BoolIndex(frame, [i \in 1..Len(frame) |-> frame[i][name] = value])

SumMentions(frame) == SumSeq(Column(frame, "Mentions"))

\* frame[frame["Date"] == date].groupby("Product")["Mentions"].sum()
agg_on(frame, date) ==
    LET rows == RowsWhere(frame, "Date", date)
    IN  [p \in unique(rows, "Product") |-> SumMentions(RowsWhere(rows, "Product", p))]

\* A plausible slip: one row per product of the view (reindexing on all
\* products), not only those present on a boundary date.
GrowthIndexAllProducts(frame, agg_start, agg_end) == unique(frame, "Product")

\* pd.DataFrame({"Start": agg_start, "End": agg_end}): the index is the union
\* of the two indexes.
GrowthIndex(frame, agg_start, agg_end) == DOMAIN agg_start \cup DOMAIN agg_end

\* lines 123-147: Start, End (NaN filled with 0) and Growth % per product
GrowthTable(frame) ==
    LET first_date == SeqMin(Column(frame, "Date"))
        last_date == SeqMax(Column(frame, "Date"))
        agg_start == agg_on(frame, first_date)
        agg_end == agg_on(frame, last_date)
        index == SortedSeq(GrowthIndex(frame, agg_start, agg_end))
        start(p) == IF p \in DOMAIN agg_start THEN agg_start[p] ELSE 0
        end(p) == IF p \in DOMAIN agg_end THEN agg_end[p] ELSE 0
    IN  [i \in 1..Len(index) |->
            [Product |-> index[i], Start |-> start(index[i]), End |-> end(index[i]),
             Growth |-> capped_growth([Start |-> start(index[i]),
                                       End |-> end(index[i])])]]

ComputeGrowth ==
    /\ pc = "kpi"
    /\ growth_df' = GrowthTable(df_filtered)
    /\ pc' = "top"
    /\ UNCHANGED <<root_exists, listing, pos, all_data, origin, warnings, df, message,
                   selected_products, selected_categories, selected_locations,
                   date_range, df_filtered, top_growing_product,
                   top_declining_product, top_location, cat_city_pct, top3_text,
                   row, change>>

\* A plausible slip: the zero-growth rows not removed.
growth_nonzero_all(table) == table

\* line 150: growth_df[growth_df["Growth %"] != 0]
growth_nonzero(table) ==
    BoolIndex(table, [i \in 1..Len(table) |-> ~RatEq(table[i].Growth, Ratio(0))])

\* Series.idxmax / idxmin: the label of the first row holding the extreme
idxmax(table) ==
    LET i == CHOOSE i \in 1..Len(table) :
                 /\ \A j \in 1..Len(table) : ~RatLess(table[i].Growth, table[j].Growth)
                 /\ \A j \in 1..(i - 1) : RatLess(table[j].Growth, table[i].Growth)
    IN  table[i].Product

idxmin(table) ==
    LET i == CHOOSE i \in 1..Len(table) :
                 /\ \A j \in 1..Len(table) : ~RatLess(table[j].Growth, table[i].Growth)
                 /\ \A j \in 1..(i - 1) : RatLess(table[i].Growth, table[j].Growth)
    IN  table[i].Product

\* lines 150-162
ComputeTop ==
    /\ pc = "top"
    /\ IF growth_nonzero(growth_df) # <<>>
       THEN /\ top_growing_product' = idxmax(growth_nonzero(growth_df))
            /\ top_declining_product' = idxmin(growth_nonzero(growth_df))
       ELSE /\ top_growing_product' = "None"
            /\ top_declining_product' = "None"
    /\ pc' = "top_location"
    /\ UNCHANGED <<root_exists, listing, pos, all_data, origin, warnings, df, message,
                   selected_products, selected_categories, selected_locations,
                   date_range, df_filtered, growth_df, top_location, cat_city_pct,
                   top3_text, row, change>>

\* line 206: groupby("Location")["Mentions"].sum().idxmax()
TopLocation(frame) ==
    LET locs == SortedSeq(unique(frame, "Location"))
        total(i) == SumMentions(RowsWhere(frame, "Location", locs[i]))
        best == CHOOSE i \in 1..Len(locs) :
                    /\ \A j \in 1..Len(locs) : total(j) <= total(i)
                    /\ \A j \in 1..(i - 1) : total(j) < total(i)
    IN  locs[best]

ComputeTopLocation ==
    /\ pc = "top_location"
    /\ top_location' = TopLocation(df_filtered)
    /\ pc' = "share"
    /\ UNCHANGED <<root_exists, listing, pos, all_data, origin, warnings, df, message,
                   selected_products, selected_categories, selected_locations,
                   date_range, df_filtered, growth_df, top_growing_product,
                   top_declining_product, cat_city_pct, top3_text, row, change>>

\* float division: 0 / 0 is NaN (a count is never negative, so a zero row sum
\* has only zero cells and x / 0 with x # 0 does not occur)
FloatDiv(a, b) == IF b = 0 THEN NaN ELSE Quotient(a, b)

FloatTimes(a, k) == IF IsNaN(a) THEN NaN ELSE Quotient(a[1] * k, a[2])

\* lines 225-226: the Location x Category grid of summed Mentions (missing
\* pairs 0), each row divided by its sum, times 100
CategoryShare(frame) ==
    LET locs == SortedSeq(unique(frame, "Location"))
        cats == unique(frame, "Category")
        cat_city(l, c) == SumMentions(RowsWhere(RowsWhere(frame, "Location", l),
                                             "Category", c))
        rowsum(l) == SumMentions(RowsWhere(frame, "Location", l))
    IN  [i \in 1..Len(locs) |->
            [Location |-> locs[i],
             shares |-> [c \in cats |->
                            FloatTimes(FloatDiv(cat_city(locs[i], c), rowsum(locs[i])),
                                       100)]]]

ComputeShare ==
    /\ pc = "share"
    /\ cat_city_pct' = CategoryShare(df_filtered)
    /\ pc' = "top3"
    /\ UNCHANGED <<root_exists, listing, pos, all_data, origin, warnings, df, message,
                   selected_products, selected_categories, selected_locations,
                   date_range, df_filtered, growth_df, top_growing_product,
                   top_declining_product, top_location, top3_text, row, change>>

\* lines 234-238: one row per (Location, Product) pair present, for one city
CityProducts(frame, city) ==
    LET rows == RowsWhere(frame, "Location", city)
        prods == SortedSeq(unique(rows, "Product"))
    IN  [i \in 1..Len(prods) |->
            [Product |-> prods[i],
             Mentions |-> SumMentions(RowsWhere(rows, "Product", prods[i]))]]

\* sort_values("Mentions", ascending=False): the default sort is not stable,
\* so rows of equal Mentions may come in any order.
SortedDescending(rows) ==
    {[i \in 1..Len(rows) |-> rows[perm[i]]] :
        perm \in {q \in Permutations(1..Len(rows)) :
                     \A i \in 1..(Len(rows) - 1) :
                         rows[q[i]].Mentions >= rows[q[i + 1]].Mentions}}

\* A plausible slip: head(3) forgotten.
head_all(rows, n) == rows

\* DataFrame.head(n)
head(rows, n) == SubSeq(rows, 1, IF Len(rows) < n THEN Len(rows) ELSE n)

Cities(frame) == SortedSeq(unique(frame, "Location"))

\* lines 241-249: format_top3 for the next city of the groupby
FormatTop3 ==
    /\ pc = "top3"
    /\ Len(top3_text) < Len(Cities(df_filtered))
    /\ LET city == Cities(df_filtered)[Len(top3_text) + 1]
       IN  \E df_sorted \in SortedDescending(CityProducts(df_filtered, city)) :
               top3_text' = Append(top3_text,
                                   [Location |-> city, entries |-> head(df_sorted, 3)])
    /\ UNCHANGED <<pc, root_exists, listing, pos, all_data, origin, warnings, df,
                   message, selected_products, selected_categories,
                   selected_locations, date_range, df_filtered, growth_df,
                   top_growing_product, top_declining_product, top_location,
                   cat_city_pct, row, change>>

\* lines 251-276: the texts and the weekly chart are drawn; the script ends
Finish ==
    /\ pc = "top3"
    /\ Len(top3_text) = Len(Cities(df_filtered))
    /\ pc' = "done"
    /\ UNCHANGED <<root_exists, listing, pos, all_data, origin, warnings, df, message,
                   selected_products, selected_categories, selected_locations,
                   date_range, df_filtered, growth_df, top_growing_product,
                   top_declining_product, top_location, cat_city_pct, top3_text,
                   row, change>>

(***************************************************************************)
(* The filtered views the KPI stage is exercised on.  Every KPI goes       *)
(* through groupby, min, max or sum, none of which reads the order of the  *)
(* rows, so a view is generated as a multiset of rows, listed in a fixed   *)
(* order.  Two families: rows of one city on three dates (the growth       *)
(* table), and rows of two cities on one date (the per-city KPIs).         *)
(***************************************************************************)
CountValues == <<0, 20, 300>>

CityCounts == <<0, 20>>

GrowthProducts == <<"BlackTuxedo", "CheckSuit", "TrenchCoat">>

CityProductNames == <<"BlackTuxedo", "CheckSuit", "DenimShirt", "TrenchCoat">>

CityNames == <<"France", "London">>

ViewRow(p, l, d, m) ==
    [Date |-> d, Mentions |-> m, Product |-> p, Category |-> CategoryOf(p),
     Location |-> l]

\* the k-th of the 27 growth rows, k in 0..26
GrowthRow(k) ==
    ViewRow(GrowthProducts[(k \div 9) + 1], "London", ((k \div 3) % 3) + 1,
            CountValues[(k % 3) + 1])

\* the k-th of the 16 city rows, k in 0..15
CityRow(k) ==
    ViewRow(CityProductNames[(k \div 4) + 1], CityNames[((k \div 2) % 2) + 1], 1,
            CityCounts[(k % 2) + 1])

\* the non-decreasing sequences of n numbers of lo..hi
RECURSIVE Ascending(_, _, _)
Ascending(n, lo, hi) ==
    IF n = 0 THEN {<<>>}
    ELSE UNION {{<<k>> \o t : t \in Ascending(n - 1, k, hi)} : k \in lo..hi}

GrowthViews ==
    UNION {{[i \in 1..n |-> GrowthRow(ks[i])] : ks \in Ascending(n, 0, 26)} :
              n \in 1..MaxGrowthRows}

CityViews ==
    UNION {{[i \in 1..n |-> CityRow(ks[i])] : ks \in Ascending(n, 0, 15)} :
              n \in 1..MaxCityRows}

InitKpi ==
    /\ pc = "kpi"
    /\ root_exists = TRUE
    /\ listing = <<>>
    /\ LoaderUnset
    /\ df = <<>>
    /\ message = "none"
    /\ selected_products = {}
    /\ selected_categories = {}
    /\ selected_locations = {}
    /\ date_range = <<0, 0>>
    /\ df_filtered \in GrowthViews \cup CityViews
    /\ KpiUnset
    /\ RowUnset

NextKpi == ComputeGrowth \/ ComputeTop \/ ComputeTopLocation \/ ComputeShare
           \/ FormatTop3 \/ Finish

SpecKpi == InitKpi /\ [][NextKpi]_vars

(***************************************************************************)
(* Claims about the KPI stage (checked under SpecKpi).                     *)
(***************************************************************************)
GrowthDone == pc \in {"top", "top_location", "share", "top3", "done"}

TopDone == pc \in {"top_location", "share", "top3", "done"}

ShareDone == pc \in {"top3", "done"}

\* the sum of Mentions over the rows of the view with the given indices
RECURSIVE ViewSum(_)
ViewSum(I) ==
    IF I = {} THEN 0
    ELSE LET i == CHOOSE i \in I : TRUE
         IN  df_filtered[i].Mentions + ViewSum(I \ {i})

ViewRows == 1..Len(df_filtered)

ViewFirstDate == CHOOSE d \in unique(df_filtered, "Date") :
                     \A e \in unique(df_filtered, "Date") : d <= e

ViewLastDate == CHOOSE d \in unique(df_filtered, "Date") :
                    \A e \in unique(df_filtered, "Date") : d >= e

NonZeroRows == {i \in 1..Len(growth_df) : ~RatEq(growth_df[i].Growth, Ratio(0))}

\* C5: the top growing (declining) product is a product of maximum (minimum)
\* Growth % among the products of non-zero Growth %; a product of Growth % 0 is
\* reported as neither; both are None exactly when no product has a non-zero
\* Growth %.
C5_TopSelection ==
    TopDone =>
        /\ (NonZeroRows = {}) <=> (top_growing_product = "None")
        /\ (NonZeroRows = {}) <=> (top_declining_product = "None")
        /\ NonZeroRows # {} =>
               /\ \E i \in NonZeroRows :
                      /\ growth_df[i].Product = top_growing_product
                      /\ \A j \in NonZeroRows :
                             ~RatLess(growth_df[i].Growth, growth_df[j].Growth)
               /\ \E i \in NonZeroRows :
                      /\ growth_df[i].Product = top_declining_product
                      /\ \A j \in NonZeroRows :
                             ~RatLess(growth_df[j].Growth, growth_df[i].Growth)
        /\ \A i \in 1..Len(growth_df) :
               RatEq(growth_df[i].Growth, Ratio(0)) =>
                   /\ growth_df[i].Product # top_growing_product
                   /\ growth_df[i].Product # top_declining_product

\* a growing and a different declining product, beside one of zero growth
C5_Witness ==
    /\ TopDone
    /\ top_growing_product # "None"
    /\ \E i \in 1..Len(growth_df) : RatEq(growth_df[i].Growth, Ratio(0))
    /\ \E i \in NonZeroRows : RatLess(growth_df[i].Growth, Ratio(0))

HasEntryWith(p, start, end) ==
    \E i \in 1..Len(growth_df) :
        /\ growth_df[i].Product = p
        /\ growth_df[i].Start = start
        /\ growth_df[i].End = end

StartOf(p) ==
    ViewSum({i \in ViewRows : df_filtered[i].Product = p
                                /\ df_filtered[i].Date = ViewFirstDate})

EndOf(p) ==
    ViewSum({i \in ViewRows : df_filtered[i].Product = p
                                /\ df_filtered[i].Date = ViewLastDate})

OnBoundary(p) ==
    \E i \in 1..Len(df_filtered) :
        /\ df_filtered[i].Product = p
        /\ df_filtered[i].Date \in {ViewFirstDate, ViewLastDate}

\* C6 as stated: every product present in the Filtered View has a Growth table
\* entry, whose Start is the sum of its Mentions on the earliest date of the
\* whole view and whose End the sum on the latest date of the whole view.
C6_EveryProductHasEntry ==
    GrowthDone =>
        \A p \in unique(df_filtered, "Product") : HasEntryWith(p, StartOf(p), EndOf(p))

\* C6 amended: every product with a row on the earliest or on the latest date
\* of the whole view has exactly one Growth table entry, with Start the sum of
\* its Mentions on the earliest date and End the sum on the latest date (0 for a
\* boundary date it has no row on); a product with rows on neither boundary
\* date has no entry.
C6_GrowthBoundary ==
    GrowthDone =>
        /\ \A p \in unique(df_filtered, "Product") :
               IF OnBoundary(p)
               THEN /\ HasEntryWith(p, StartOf(p), EndOf(p))
                    /\ Cardinality({i \in 1..Len(growth_df) :
                                       growth_df[i].Product = p}) = 1
               ELSE \A i \in 1..Len(growth_df) : growth_df[i].Product # p
        /\ \A i \in 1..Len(growth_df) :
               growth_df[i].Product \in unique(df_filtered, "Product")

\* a product with rows on the last date only (Start 0), beside a product with
\* rows on neither boundary date
C6_Witness ==
    /\ GrowthDone
    /\ \E i \in 1..Len(growth_df) : growth_df[i].Start = 0 /\ growth_df[i].End > 0
    /\ \E p \in unique(df_filtered, "Product") : ~OnBoundary(p)

RECURSIVE RatSum(_, _)
RatSum(f, S) ==
    IF S = {} THEN Ratio(0)
    ELSE LET c == CHOOSE c \in S : TRUE IN RatAdd(f[c], RatSum(f, S \ {c}))

\* C8: the share row of every city sums to 100 when the city's total mentions
\* are non-zero, and is all zero (no undefined value) when they are 0.
C8_ShareRows ==
    ShareDone =>
        \A i \in 1..Len(cat_city_pct) :
            LET shares == cat_city_pct[i].shares
                total == ViewSum({j \in ViewRows :
                                    df_filtered[j].Location = cat_city_pct[i].Location})
            IN  IF total # 0
                THEN RatEq(RatSum(shares, DOMAIN shares), Ratio(100))
                ELSE \A c \in DOMAIN shares : RatEq(shares[c], Ratio(0))

CityProductSet(city) ==
    {df_filtered[i].Product : i \in {j \in 1..Len(df_filtered) :
                                        df_filtered[j].Location = city}}

CitySum(city, p) ==
    ViewSum({i \in ViewRows : df_filtered[i].Location = city
                                /\ df_filtered[i].Product = p})

Min(a, b) == IF a < b THEN a ELSE b

\* C10: for every city of the view with k distinct products the ranking lists
\* min(k, 3) distinct products of that city with their summed Mentions, in
\* non-increasing order, and no unlisted product of the city has more Mentions
\* than a listed one; a city with 2 products gets exactly 2 entries.
C10_Top3 ==
    /\ pc \in {"top3", "done"} =>
           \A t \in 1..Len(top3_text) :
               LET city == top3_text[t].Location
                   entries == top3_text[t].entries
                   listed == {entries[i].Product : i \in 1..Len(entries)}
               IN  /\ Len(entries) = Min(Cardinality(CityProductSet(city)), 3)
                   /\ Cardinality(listed) = Len(entries)
                   /\ listed \subseteq CityProductSet(city)
                   /\ \A i \in 1..Len(entries) :
                          entries[i].Mentions = CitySum(city, entries[i].Product)
                   /\ \A i \in 1..(Len(entries) - 1) :
                          entries[i].Mentions >= entries[i + 1].Mentions
                   /\ \A u \in CityProductSet(city) \ listed :
                          \A i \in 1..Len(entries) :
                              entries[i].Mentions >= CitySum(city, u)
                   /\ Cardinality(CityProductSet(city)) = 2 => Len(entries) = 2
    /\ pc = "done" =>
           {top3_text[t].Location : t \in 1..Len(top3_text)}
               = unique(df_filtered, "Location")

\* a city with four products, of which three are listed, two of them tied
C10_Witness ==
    /\ pc = "done"
    /\ \E t \in 1..Len(top3_text) :
           /\ Cardinality(CityProductSet(top3_text[t].Location)) = 4
           /\ Len(top3_text[t].entries) = 3
           /\ top3_text[t].entries[1].Mentions = top3_text[t].entries[2].Mentions
           /\ top3_text[t].entries[1].Mentions > 0

(***************************************************************************)
(* The whole script, from the folder check to the last chart.              *)
(***************************************************************************)
\* lines 13-16
CheckRoot ==
    /\ pc = "start"
    /\ IF root_exists
       THEN pc' = "load" /\ message' = message
       ELSE pc' = "stopped" /\ message' = "Folder 'GoogleTrends' not found."
    /\ UNCHANGED <<root_exists, listing, pos, all_data, origin, warnings, df,
                   selected_products, selected_categories, selected_locations,
                   date_range, df_filtered, growth_df, top_growing_product,
                   top_declining_product, top_location, cat_city_pct, top3_text,
                   row, change>>

\* lines 87-89
CheckLoaded ==
    /\ pc = "loaded"
    /\ IF df = <<>>
       THEN pc' = "stopped" /\ message' = "No data available."
       ELSE pc' = "widgets" /\ message' = message
    /\ UNCHANGED <<root_exists, listing, pos, all_data, origin, warnings, df,
                   selected_products, selected_categories, selected_locations,
                   date_range, df_filtered, growth_df, top_growing_product,
                   top_declining_product, top_location, cat_city_pct, top3_text,
                   row, change>>

\* The folders a whole run is exercised on: two files with integer counts, a
\* file with a column line only, a file whose name has no location token, a
\* file that is no CSV and a file lying in the root itself.
RunUniverse ==
    {CsvFile(<<"CheckSuit", "UK">>, DataRows(2)),
     CsvFile(<<"TrenchCoat", "France">>,
             <<<<DateText[1], "20">>, <<DateText[2], "300">>>>),
     CsvFile(<<"TrenchCoat", "France">>, DataRows(0)),
     NoTagFile, NotCsvFile, TopLevelFile}

Init ==
    /\ pc = "start"
    /\ root_exists \in BOOLEAN
    /\ listing \in (IF root_exists THEN SeqsUpTo(RunUniverse, MaxFiles) ELSE {<<>>})
    /\ LoaderUnset
    /\ df = <<>>
    /\ message = "none"
    /\ WidgetsUnset
    /\ KpiUnset
    /\ RowUnset

Next ==
    \/ CheckRoot
    \/ load_all_data
    \/ CheckLoaded
    \/ SelectFilters
    \/ ApplyFilter
    \/ NextKpi

Spec == Init /\ [][Next]_vars

(***************************************************************************)
(* Claim about the order of the script (checked under Spec).               *)
(***************************************************************************)
KpiStage == {"kpi", "top", "top_location", "share", "top3", "done"}

\* C9: the KPI stage is reached only if the root folder exists, the unified
\* dataset is non-empty and the filtered view is non-empty; with the root
\* missing no file is read; and in each of the three failing cases the run has
\* stopped with its message and no KPI computed, so that the top location is
\* never computed on an empty view.
C9_HaltBeforeKpi ==
    /\ pc \in KpiStage => root_exists /\ df # <<>> /\ df_filtered # <<>>
    /\ ~root_exists => pos = 0 /\ all_data = <<>> /\ warnings = {}
    /\ (~root_exists /\ pc # "start") =>
           pc = "stopped" /\ message = "Folder 'GoogleTrends' not found."
    /\ (root_exists /\ df = <<>> /\ pc \notin {"start", "load", "loaded"}) =>
           pc = "stopped" /\ message = "No data available."
    /\ (root_exists /\ df # <<>> /\ df_filtered = <<>>
            /\ pc \notin {"start", "load", "loaded", "widgets", "filter"}) =>
           pc = "stopped" /\ message = "No data matches the selected filters."
    /\ pc = "stopped" => message # "none" /\ KpiUnset
    /\ pc # "stopped" => message = "none"
    /\ top_location # "None" => df_filtered # <<>>

\* a run halted by the filter, after a load that read files
C9_Witness ==
    /\ pc = "stopped"
    /\ message = "No data matches the selected filters."
    /\ df # <<>>
    /\ df_filtered = <<>>
    /\ top_location = "None"

====
